---------------------------- MODULE Spec2Model ----------------------------
(***************************************************************************)
(* Isometries of hyperbolic 3-space in the hyperboloid model               *)
(* (common/src/math/isometry.rs): the Isometry value type, its application *)
(* to homogeneous vectors, its composition operator with the holonomy      *)
(* correction, triangle_defect and loc_angle.                              *)
(*                                                                         *)
(* The numeric type N (a RealField) is modelled by decimal fixed point:    *)
(* the real r is the integer r * Scale, rounded to the nearest, and NaN is *)
(* a value of its own that every operation propagates.  Sums, products and *)
(* exact quotients of values that are exactly representable are exact;     *)
(* sqrt and the transcendental functions are computed to a few units of    *)
(* the last place.                                                         *)
(***************************************************************************)
EXTENDS Integers, Sequences, FiniteSets, TLC

(***************************************************************************)
(* N: fixed-point reals                                                    *)
(***************************************************************************)
Kilo == 10 * 10 * 10
Scale == Kilo * Kilo
NaN == 0 - (2 * Kilo * Scale)

Zero == 0
One == Scale
Half == Scale \div 2

IsNaN(x) == x = NaN
Abs(x) == IF x < 0 THEN 0 - x ELSE x
Sgn(x) == IF x < 0 THEN 0 - 1 ELSE 1

FNeg(x) == IF IsNaN(x) THEN NaN ELSE 0 - x
FAdd(x, y) == IF IsNaN(x) \/ IsNaN(y) THEN NaN ELSE x + y
FSub(x, y) == IF IsNaN(x) \/ IsNaN(y) THEN NaN ELSE x - y

\* |x| * |y| / Scale, rounded, without leaving 31 bits: x = xh * Kilo + xl
MulMag(x, y) ==
    LET xh == x \div Kilo
        xl == x % Kilo
        yh == y \div Kilo
        yl == y % Kilo
        mid == xh * yl + xl * yh
    IN  xh * yh + (mid \div Kilo) + (((mid % Kilo) * Kilo + xl * yl + Half) \div Scale)

FMul(x, y) ==
    IF IsNaN(x) \/ IsNaN(y) THEN NaN
    ELSE Sgn(x) * Sgn(y) * MulMag(Abs(x), Abs(y))

\* n \div d rounded to the nearest integer, 0 < d
RDiv(n, d) == IF n >= 0 THEN (2 * n + d) \div (2 * d) ELSE 0 - ((2 * (0 - n) + d) \div (2 * d))

\* the digits of r / d after the point, n of them, r < d; rnd: the last one
\* rounded, else truncated
RECURSIVE Frac(_, _, _, _)
Frac(r, d, n, rnd) ==
    IF n = 0 THEN (IF rnd /\ 2 * r >= d THEN 1 ELSE 0)
    ELSE LET r10 == r * 10
         IN  (r10 \div d) * (10 ^ (n - 1)) + Frac(r10 % d, d, n - 1, rnd)

\* |x| / |y| * Scale; a divisor too wide for the long division loses a digit
RECURSIVE DivMag(_, _, _)
DivMag(x, y, rnd) ==
    IF y >= 200 * Scale THEN DivMag(x \div 10, y \div 10, rnd)
    ELSE (x \div y) * Scale + Frac(x % y, y, 6, rnd)

\* x / y; as for floats, a quotient by zero is not a number here (0/0) or
\* unbounded, and neither is a value of the model
FDiv(x, y) ==
    IF IsNaN(x) \/ IsNaN(y) \/ y = 0 THEN NaN
    ELSE Sgn(x) * Sgn(y) * DivMag(Abs(x), Abs(y), TRUE)


\* N::pi()
Pi == 3141593
HalfPi == Pi \div 2
\* ln 2, for the logarithm inside acosh
Ln2 == 693147

\* x.sqrt(): Newton's iteration from above the root
RECURSIVE SqrtIter(_, _)
SqrtIter(x, r) ==
    LET n == (r + DivMag(x, r, FALSE)) \div 2
    IN  IF n >= r THEN r ELSE SqrtIter(x, n)

Sqrt(x) ==
    IF IsNaN(x) \/ x < 0 THEN NaN
    ELSE IF x = 0 THEN 0
    ELSE SqrtIter(x, IF x > One THEN x ELSE One)

\* sum of t * x^2 / ((k+1)(k+2)) ... : the terms of exp, sinh, cosh, sin, cos
\* (step = 1: every power, step = 2: every other; alt: alternating signs)
RECURSIVE Series(_, _, _, _, _)
Series(t, x, k, step, alt) ==
    IF t = 0 \/ k > 24 THEN 0
    ELSE LET nx == IF step = 1 THEN RDiv(FMul(t, x), k + 1)
                   ELSE RDiv(FMul(t, FMul(x, x)), (k + 1) * (k + 2))
         IN  t + Series(IF alt THEN 0 - nx ELSE nx, x, k + step, step, alt)

\* e^x for 0 <= x, by halving the argument down to [0, 1]
RECURSIVE ExpPos(_)
ExpPos(x) ==
    IF x > One THEN LET h == ExpPos(x \div 2) IN FMul(h, h)
    ELSE Series(One, x, 0, 1, FALSE)

\* x.cosh(), x.sinh(): the series near zero (so that sinh x = 0 only at 0),
\* the exponentials elsewhere
Cosh(x) ==
    IF IsNaN(x) THEN NaN
    ELSE IF Abs(x) <= One THEN Series(One, x, 0, 2, FALSE)
    ELSE LET e == ExpPos(Abs(x)) IN RDiv(e + FDiv(One, e), 2)

Sinh(x) ==
    IF IsNaN(x) THEN NaN
    ELSE IF Abs(x) <= One THEN Series(x, x, 1, 2, FALSE)
    ELSE LET e == ExpPos(Abs(x)) IN Sgn(x) * RDiv(e - FDiv(One, e), 2)

\* x.sin(), x.cos() (|x| <= pi, the only arguments composition produces)
Sin(x) == IF IsNaN(x) THEN NaN ELSE Series(x, x, 1, 2, TRUE)
Cos(x) == IF IsNaN(x) THEN NaN ELSE Series(One, x, 0, 2, TRUE)

\* z + z^3/3 + z^5/5 + ... (atanh) or z - z^3/3 + z^5/5 - ... (atan)
RECURSIVE OddSeries(_, _, _, _)
OddSeries(p, zz, k, alt) ==
    IF p = 0 \/ k > 40 THEN 0
    ELSE RDiv(p, k) + OddSeries(IF alt THEN 0 - FMul(p, zz) ELSE FMul(p, zz), zz, k + 2, alt)

\* ln x for 1 <= x
RECURSIVE LnPos(_)
LnPos(x) ==
    IF x > 2 * One THEN Ln2 + LnPos(x \div 2)
    ELSE LET z == FDiv(x - One, x + One)
         IN  2 * OddSeries(z, FMul(z, z), 1, FALSE)

\* x.acosh(): ln(x + sqrt(x^2 - 1)), not a number below 1
Acosh(x) ==
    IF IsNaN(x) \/ x < One THEN NaN
    ELSE LnPos(x + Sqrt(FMul(x, x) - One))

\* atan t for 0 <= t: the angle is halved until the series converges fast
RECURSIVE AtanPos(_)
AtanPos(t) ==
    IF t > One THEN HalfPi - AtanPos(FDiv(One, t))
    ELSE IF t > One \div 5 THEN 2 * AtanPos(FDiv(t, One + Sqrt(One + FMul(t, t))))
    ELSE OddSeries(t, FMul(t, t), 1, TRUE)

\* x.acos(): in [0, pi] on [-1, 1], not a number outside it
Acos(x) ==
    IF IsNaN(x) \/ x < 0 - One \/ x > One THEN NaN
    ELSE IF x = One THEN 0
    ELSE IF x = 0 - One THEN Pi
    ELSE IF x = 0 THEN HalfPi
    ELSE LET y == Sqrt(One - FMul(x, x))
         IN  IF Abs(x) < y THEN HalfPi - Sgn(x) * AtanPos(FDiv(Abs(x), y))
             ELSE IF x > 0 THEN AtanPos(FDiv(y, x))
             ELSE Pi - AtanPos(FDiv(y, 0 - x))

\* a > b, a < b on N: false when either side is not a number
FGt(a, b) == ~IsNaN(a) /\ ~IsNaN(b) /\ a > b
FLt(a, b) == ~IsNaN(a) /\ ~IsNaN(b) /\ a < b

\* na::clamp(val, min, max)
clamp(val, min, max) ==
    IF FGt(val, min) THEN (IF FLt(val, max) THEN val ELSE max) ELSE min

(***************************************************************************)
(* Vectors <<x, y, z>> and <<x, y, z, w>>, 4x4 matrices as tuples of rows, *)
(* unit quaternions <<w, i, j, k>>                                         *)
(***************************************************************************)
xyz(v) == <<v[1], v[2], v[3]>>
Vector4(x, y, z, w) == <<x, y, z, w>>

Sum3(a, b, c) == FAdd(FAdd(a, b), c)
Sum4(a, b, c, d) == FAdd(FAdd(FAdd(a, b), c), d)

cross(a, b) ==
    << FSub(FMul(a[2], b[3]), FMul(a[3], b[2])),
       FSub(FMul(a[3], b[1]), FMul(a[1], b[3])),
       FSub(FMul(a[1], b[2]), FMul(a[2], b[1])) >>

norm(v) == Sqrt(Sum3(FMul(v[1], v[1]), FMul(v[2], v[2]), FMul(v[3], v[3])))

\* na::Unit::new_and_get(v): the vector divided by its norm, and the norm;
\* a zero vector gives 0/0 in every component
new_and_get(v) ==
    LET n == norm(v)
    IN  << <<FDiv(v[1], n), FDiv(v[2], n), FDiv(v[3], n)>>, n >>

MatVec(m, v) ==
    [i \in 1..4 |-> Sum4(FMul(m[i][1], v[1]), FMul(m[i][2], v[2]),
                         FMul(m[i][3], v[3]), FMul(m[i][4], v[4]))]

MatMul(m, n) ==
    [i \in 1..4 |-> [j \in 1..4 |->
        Sum4(FMul(m[i][1], n[1][j]), FMul(m[i][2], n[2][j]),
             FMul(m[i][3], n[3][j]), FMul(m[i][4], n[4][j]))]]

\* na::one() for UnitQuaternion
QuatOne == <<One, 0, 0, 0>>

\* UnitQuaternion * UnitQuaternion: the Hamilton product
QuatMul(p, q) ==
    << FSub(FSub(FSub(FMul(p[1], q[1]), FMul(p[2], q[2])), FMul(p[3], q[3])), FMul(p[4], q[4])),
       FSub(FAdd(FAdd(FMul(p[1], q[2]), FMul(p[2], q[1])), FMul(p[3], q[4])), FMul(p[4], q[3])),
       FAdd(FAdd(FSub(FMul(p[1], q[3]), FMul(p[2], q[4])), FMul(p[3], q[1])), FMul(p[4], q[2])),
       FAdd(FSub(FAdd(FMul(p[1], q[4]), FMul(p[2], q[3])), FMul(p[3], q[2])), FMul(p[4], q[1])) >>

\* UnitQuaternion::inverse: the conjugate
QuatInverse(q) == <<q[1], FNeg(q[2]), FNeg(q[3]), FNeg(q[4])>>

\* UnitQuaternion * Vector3: t = 2 (q.ijk x v); v + w t + q.ijk x t
QuatRotate(q, v) ==
    LET u == <<q[2], q[3], q[4]>>
        c == cross(u, v)
        t == <<FMul(2 * One, c[1]), FMul(2 * One, c[2]), FMul(2 * One, c[3])>>
        d == cross(u, t)
    IN  [n \in 1..3 |-> Sum3(FMul(t[n], q[1]), d[n], v[n])]

\* UnitQuaternion::inverse_transform_vector
inverse_transform_vector(q, v) == QuatRotate(QuatInverse(q), v)

\* UnitQuaternion::to_homogeneous: the rotation matrix from the squares and
\* doubled products of the coordinates, then the homogeneous row and column
QuatToHomogeneous(q) ==
    LET w == q[1]
        i == q[2]
        j == q[3]
        k == q[4]
        ww == FMul(w, w)
        ii == FMul(i, i)
        jj == FMul(j, j)
        kk == FMul(k, k)
        ij == FMul(FMul(i, j), 2 * One)
        wk == FMul(FMul(w, k), 2 * One)
        wj == FMul(FMul(w, j), 2 * One)
        ik == FMul(FMul(i, k), 2 * One)
        jk == FMul(FMul(j, k), 2 * One)
        wi == FMul(FMul(w, i), 2 * One)
    IN  << << FSub(FSub(FAdd(ww, ii), jj), kk), FSub(ij, wk), FAdd(wj, ik), 0 >>,
           << FAdd(wk, ij), FSub(FAdd(FSub(ww, ii), jj), kk), FSub(jk, wi), 0 >>,
           << FSub(ik, wj), FAdd(wi, jk), FAdd(FSub(FSub(ww, ii), jj), kk), 0 >>,
           << 0, 0, 0, One >> >>

\* UnitQuaternion::from_axis_angle: (cos(angle/2), axis * sin(angle/2))
from_axis_angle(axis, angle) ==
    LET h == FDiv(angle, 2 * One)
        sang == Sin(h)
        cang == Cos(h)
    IN  << cang, FMul(axis[1], sang), FMul(axis[2], sang), FMul(axis[3], sang) >>

(***************************************************************************)
(* The hyperbolic helpers of the math module: origin, distance, translate  *)
(***************************************************************************)
origin == <<0, 0, 0, One>>

\* the Minkowski inner product
mip(a, b) ==
    FSub(Sum3(FMul(a[1], b[1]), FMul(a[2], b[2]), FMul(a[3], b[3])), FMul(a[4], b[4]))

\* the geodesic distance of two homogeneous points
distance(a, b) ==
    LET ab == mip(a, b)
    IN  Acosh(Sqrt(FDiv(FMul(ab, ab), FMul(mip(a, a), mip(b, b)))))

\* the reflection through the point p
reflect(p) ==
    LET pp == mip(p, p)
    IN  [i \in 1..4 |-> [j \in 1..4 |->
          FSub(IF i = j THEN One ELSE 0,
               FDiv(FMul(FMul(2 * One, p[i]), IF j = 4 THEN FNeg(p[j]) ELSE p[j]), pp))]]

\* the midpoint (up to scale) of two points of the hyperboloid
midpoint(a, b) == [i \in 1..4 |-> FAdd(a[i], b[i])]

\* the translation along the geodesic from a to b that moves a to b, for a
\* and b on the hyperboloid: the reflection through a, then the one through
\* their midpoint
translate(a, b) == MatMul(reflect(midpoint(a, b)), reflect(a))

(***************************************************************************)
(* Isometry                                                                *)
(***************************************************************************)
Isometry(t, r) == [translation |-> t, rotation |-> r]

identity == Isometry(origin, QuatOne)

\* a variant of the assertion that demands a positive w
from_parts_asserts_Positive(translation) == translation[4] > Zero

\* the debug assertion of from_parts
from_parts_asserts(translation) == translation[4] /= Zero

\* from_parts: the assertion's failure (a debug build only), or the isometry
from_parts(debug, translation, rotation) ==
    IF debug /\ ~from_parts_asserts(translation) THEN [panic |-> TRUE, val |-> <<>>]
    ELSE [panic |-> FALSE, val |-> Isometry(translation, rotation)]

to_homogeneous(self) ==
    MatMul(translate(origin, self.translation), QuatToHomogeneous(self.rotation))

\* a variant of the application that takes every vector for a point (w = 1)
MulVec_RefRef_UnitW(self, rhs) ==
    LET rotated == QuatRotate(self.rotation, xyz(rhs))
    IN  MatVec(translate(origin, self.translation),
               Vector4(rotated[1], rotated[2], rotated[3], One))

\* &Isometry * &Vector4
MulVec_RefRef(self, rhs) ==
    LET rotated == QuatRotate(self.rotation, xyz(rhs))
    IN  MatVec(translate(origin, self.translation),
               Vector4(rotated[1], rotated[2], rotated[3], rhs[4]))

\* Isometry * &Vector4
MulVec_OwnedRef(self, rhs) == MulVec_RefRef(self, rhs)
\* &Isometry * Vector4
MulVec_RefOwned(self, rhs) == MulVec_RefRef(self, rhs)
\* Isometry * Vector4
MulVec_OwnedOwned(self, rhs) == MulVec_RefRef(self, rhs)

\* a variant of loc_angle_run that takes the acos of the ratio as it is
loc_angle_run_NoClamp(a, b, c) ==
    LET denom == FMul(Sinh(b), Sinh(c))
    IN  IF denom = Zero THEN [ret |-> Zero, divides |-> FALSE]
        ELSE [ret |-> Acos(FDiv(FSub(FMul(Cosh(b), Cosh(c)), Cosh(a)), denom)),
              divides |-> TRUE]

\* Compute angle at the vertex opposite side a using the hyperbolic law of
\* cosines; divides: whether the quotient was formed
loc_angle_run(a, b, c) ==
    LET denom == FMul(Sinh(b), Sinh(c))
    IN  IF denom = Zero THEN [ret |-> Zero, divides |-> FALSE]
        ELSE [ret |-> Acos(clamp(FDiv(FSub(FMul(Cosh(b), Cosh(c)), Cosh(a)), denom),
                                 FNeg(One), One)),
              divides |-> TRUE]

loc_angle(a, b, c) == loc_angle_run(a, b, c).ret

\* a variant of triangle_defect_run without the early return
triangle_defect_run_NoZeroCheck(p0, p1, p2) ==
    LET a == distance(p0, p1)
        b == distance(p1, p2)
        c == distance(p2, p0)
        angle_sum == FAdd(FAdd(loc_angle(a, b, c), loc_angle(b, c, a)),
                          loc_angle(c, a, b))
    IN  [ret |-> FSub(Pi, angle_sum),
         calls |-> << <<a, b, c>>, <<b, c, a>>, <<c, a, b>> >>]

\* triangle_defect; calls: the loc_angle calls it made, in order
triangle_defect_run(p0, p1, p2) ==
    LET a == distance(p0, p1)
        b == distance(p1, p2)
        c == distance(p2, p0)
    IN  IF a = Zero \/ b = Zero \/ c = Zero THEN [ret |-> Zero, calls |-> <<>>]
        ELSE LET angle_sum == FAdd(FAdd(loc_angle(a, b, c), loc_angle(b, c, a)),
                                   loc_angle(c, a, b))
             IN  [ret |-> FSub(Pi, angle_sum),
                  calls |-> << <<a, b, c>>, <<b, c, a>>, <<c, a, b>> >>]

triangle_defect(p0, p1, p2) == triangle_defect_run(p0, p1, p2).ret

\* a variant of the composition that rotates about the axis whatever the
\* magnitude
Mul_RefRef_NoZeroCheck(self, rhs) ==
    LET x3 == inverse_transform_vector(rhs.rotation, xyz(self.translation))
        x == Vector4(x3[1], x3[2], x3[3], self.translation[4])
        translation == MatVec(translate(origin, x), rhs.translation)
        am == new_and_get(cross(xyz(translation), xyz(x)))
        defect == triangle_defect(x, translation, origin)
    IN  [ret |-> Isometry(translation,
                          QuatMul(QuatMul(self.rotation, rhs.rotation),
                                  from_axis_angle(am[1], defect))),
         holonomy |-> am[2] /= Zero]

\* a variant of the composition that multiplies the rotations in the other
\* order
Mul_RefRef_Swapped(self, rhs) ==
    LET x3 == inverse_transform_vector(rhs.rotation, xyz(self.translation))
        x == Vector4(x3[1], x3[2], x3[3], self.translation[4])
        translation == MatVec(translate(origin, x), rhs.translation)
        am == new_and_get(cross(xyz(translation), xyz(x)))
    IN  IF am[2] = Zero
        THEN [ret |-> Isometry(translation, QuatMul(rhs.rotation, self.rotation)),
              holonomy |-> FALSE]
        ELSE LET defect == triangle_defect(x, translation, origin)
             IN  [ret |-> Isometry(translation,
                                   QuatMul(QuatMul(rhs.rotation, self.rotation),
                                           from_axis_angle(am[1], defect))),
                  holonomy |-> TRUE]

\* a variant of the composition that leaves the left translation in its own
\* frame
Mul_RefRef_RawX(self, rhs) ==
    LET x == self.translation
        translation == MatVec(translate(origin, x), rhs.translation)
        am == new_and_get(cross(xyz(translation), xyz(x)))
    IN  IF am[2] = Zero
        THEN [ret |-> Isometry(translation, QuatMul(self.rotation, rhs.rotation)),
              holonomy |-> FALSE]
        ELSE LET defect == triangle_defect(x, translation, origin)
             IN  [ret |-> Isometry(translation,
                                   QuatMul(QuatMul(self.rotation, rhs.rotation),
                                           from_axis_angle(am[1], defect))),
                  holonomy |-> TRUE]

\* &Isometry * &Isometry; holonomy: whether the axis was used for a rotation
Mul_RefRef(self, rhs) ==
    LET x3 == inverse_transform_vector(rhs.rotation, xyz(self.translation))
        x == Vector4(x3[1], x3[2], x3[3], self.translation[4])
        translation == MatVec(translate(origin, x), rhs.translation)
        am == new_and_get(cross(xyz(translation), xyz(x)))
        axis == am[1]
        magnitude == am[2]
    IN  IF magnitude = Zero
        THEN [ret |-> Isometry(translation, QuatMul(self.rotation, rhs.rotation)),
              holonomy |-> FALSE]
        ELSE LET defect == triangle_defect(x, translation, origin)
             IN  [ret |-> Isometry(translation,
                                   QuatMul(QuatMul(self.rotation, rhs.rotation),
                                           from_axis_angle(axis, defect))),
                  holonomy |-> TRUE]

\* &Isometry * Isometry
Mul_RefOwned(self, rhs) == Mul_RefRef(self, rhs)
\* Isometry * &Isometry
Mul_OwnedRef(self, rhs) == Mul_RefRef(self, rhs)
\* Isometry * Isometry
Mul_OwnedOwned(self, rhs) == Mul_RefRef(self, rhs)

\* the value of self * rhs
IsoMul(self, rhs) == Mul_RefRef(self, rhs).ret

\* abs_diff_eq on numbers, vectors, quaternions, matrices, isometries
AbsDiffEq(a, b, eps) == ~IsNaN(a) /\ ~IsNaN(b) /\ Abs(a - b) <= eps
VecAbsDiffEq(u, v, eps) ==
    /\ DOMAIN u = DOMAIN v
    /\ \A i \in DOMAIN u : AbsDiffEq(u[i], v[i], eps)
MatAbsDiffEq(m, n, eps) == \A i \in 1..4 : VecAbsDiffEq(m[i], n[i], eps)
IsoAbsDiffEq(self, other, eps) ==
    /\ VecAbsDiffEq(self.translation, other.translation, eps)
    /\ VecAbsDiffEq(self.rotation, other.rotation, eps)

(***************************************************************************)
(* The operands the operations are applied to                              *)
(***************************************************************************)
NPoints == 3
NRots == 3
NVecs == 3
NSides == 5

\* points of the hyperboloid x^2 + y^2 + z^2 - w^2 = -1
PointList ==
    << origin,
       <<750000, 0, 0, 1250000>>,
       <<0, 750000, 0, 1250000>>,
       <<One, One, One, 2 * One>>,
       <<0, 0, 0 - 2400000, 2600000>> >>

\* unit quaternions: 1, k (a half turn about z), (1 + i + j + k) / 2 (a third
\* of a turn about the diagonal), i, (1 - i + j - k) / 2
RotList ==
    << QuatOne,
       <<0, 0, 0, One>>,
       <<Half, Half, Half, Half>>,
       <<0, One, 0, 0>>,
       <<Half, 0 - Half, Half, 0 - Half>> >>

\* homogeneous vectors: a point off the hyperboloid, a direction (w = 0), a
\* vector with a negative w, a point of the hyperboloid, the zero vector
VecList ==
    << <<One, 2 * One, 3 * One, One>>,
       <<0, One, 0 - One, 0>>,
       <<500000, 0, 0, 0 - One>>,
       <<0, 750000, 0, 1250000>>,
       <<0, 0, 0, 0>> >>

\* side lengths: zero, the sides of the law-of-cosines example, not a number
SideList == <<0, 1950000, 3110000, 4390000, NaN, One>>

Min(a, b) == IF a < b THEN a ELSE b
Points == {PointList[n] : n \in 1..Min(NPoints, Len(PointList))}
Rots == {RotList[n] : n \in 1..Min(NRots, Len(RotList))}
Vecs == {VecList[n] : n \in 1..Min(NVecs, Len(VecList))}
Sides == {SideList[n] : n \in 1..Min(NSides, Len(SideList))}
Isometries == {Isometry(t, r) : t \in Points, r \in Rots}
Forms == {"ref_ref", "owned_ref", "ref_owned", "owned_owned"}

(***************************************************************************)
(* The state: the last call (op, form, args), what it returned (ret) and   *)
(* what happened on the way (aux): "panic", "holonomy", "divides", or the  *)
(* arguments of the loc_angle calls                                        *)
(***************************************************************************)
VARIABLES op, form, args, ret, aux
vars == <<op, form, args, ret, aux>>

Init ==
    /\ op = "idle"
    /\ form = "none"
    /\ args = <<>>
    /\ ret = <<>>
    /\ aux = <<>>

\* Each operation is called from the idle state; its action draws the
\* operands and hands the value computed to the definition that records the
\* call.

IdentityReturns(r) ==
    /\ op = "idle"
    /\ op' = "identity"
    /\ form' = "none"
    /\ args' = <<>>
    /\ ret' = r
    /\ aux' = <<>>

Identity == IdentityReturns(identity)

FromPartsReturns(debug, t, r, run) ==
    /\ op = "idle"
    /\ op' = "from_parts"
    /\ form' = "none"
    /\ args' = <<debug, t, r>>
    /\ ret' = run.val
    /\ aux' = IF run.panic THEN <<"panic">> ELSE <<>>

FromParts ==
    \E debug \in BOOLEAN, t \in Points \cup Vecs, r \in Rots :
        FromPartsReturns(debug, t, r, from_parts(debug, t, r))

ToHomogeneousReturns(self, m) ==
    /\ op = "idle"
    /\ op' = "to_homogeneous"
    /\ form' = "none"
    /\ args' = <<self>>
    /\ ret' = m
    /\ aux' = <<>>

ToHomogeneous ==
    \E self \in Isometries : ToHomogeneousReturns(self, to_homogeneous(self))

MulVectorReturns(f, self, rhs, v) ==
    /\ op = "idle"
    /\ op' = "mul_vector"
    /\ form' = f
    /\ args' = <<self, rhs>>
    /\ ret' = v
    /\ aux' = <<>>

MulVector ==
    \E self \in Isometries, rhs \in Vecs, f \in Forms :
        MulVectorReturns(f, self, rhs,
            CASE f = "ref_ref" -> MulVec_RefRef(self, rhs)
              [] f = "owned_ref" -> MulVec_OwnedRef(self, rhs)
              [] f = "ref_owned" -> MulVec_RefOwned(self, rhs)
              [] OTHER -> MulVec_OwnedOwned(self, rhs))

MulIsometryReturns(f, self, rhs, run) ==
    /\ op = "idle"
    /\ op' = "mul_isometry"
    /\ form' = f
    /\ args' = <<self, rhs>>
    /\ ret' = run.ret
    /\ aux' = IF run.holonomy THEN <<"holonomy">> ELSE <<>>

MulIsometry ==
    \E self \in Isometries, rhs \in Isometries, f \in Forms :
        MulIsometryReturns(f, self, rhs,
            CASE f = "ref_ref" -> Mul_RefRef(self, rhs)
              [] f = "owned_ref" -> Mul_OwnedRef(self, rhs)
              [] f = "ref_owned" -> Mul_RefOwned(self, rhs)
              [] OTHER -> Mul_OwnedOwned(self, rhs))

TriangleDefectReturns(p0, p1, p2, run) ==
    /\ op = "idle"
    /\ op' = "triangle_defect"
    /\ form' = "none"
    /\ args' = <<p0, p1, p2>>
    /\ ret' = run.ret
    /\ aux' = run.calls

TriangleDefect ==
    \E p0 \in Points, p1 \in Points, p2 \in Points :
        TriangleDefectReturns(p0, p1, p2, triangle_defect_run(p0, p1, p2))

LocAngleReturns(a, b, c, run) ==
    /\ op = "idle"
    /\ op' = "loc_angle"
    /\ form' = "none"
    /\ args' = <<a, b, c>>
    /\ ret' = run.ret
    /\ aux' = IF run.divides THEN <<"divides">> ELSE <<>>

LocAngle ==
    \E a \in Sides, b \in Sides, c \in Sides :
        LocAngleReturns(a, b, c, loc_angle_run(a, b, c))

\* the value is dropped and the next call can be made
Return ==
    /\ op /= "idle"
    /\ op' = "idle"
    /\ form' = "none"
    /\ args' = <<>>
    /\ ret' = <<>>
    /\ aux' = <<>>

Next ==
    \/ Identity
    \/ FromParts
    \/ ToHomogeneous
    \/ MulVector
    \/ MulIsometry
    \/ TriangleDefect
    \/ LocAngle
    \/ Return

Spec == Init /\ [][Next]_vars

(***************************************************************************)
(* Properties                                                              *)
(***************************************************************************)
\* the epsilon of the tests, 1e-5
Eps == 10

IsMul == op = "mul_isometry"
Self == args[1]
Rhs == args[2]

NoNaNVec(v) == \A i \in DOMAIN v : ~IsNaN(v[i])
NoNaNIso(t) == NoNaNVec(t.translation) /\ NoNaNVec(t.rotation)

\* C1: the matrix of a composition is the product of the matrices of its
\* operands, for every pair of isometries (within epsilon)
C1_Homomorphism ==
    IsMul => MatAbsDiffEq(to_homogeneous(ret),
                          MatMul(to_homogeneous(Self), to_homogeneous(Rhs)), Eps)

\* a half turn about z composed with a translation along x: the product of
\* the matrices moves the origin to the mirror image of the right
\* translation, and the matrix of the result moves it to the translation
\* itself
C1_FailingInput ==
    /\ IsMul
    /\ Self = Isometry(origin, RotList[2])
    /\ Rhs = Isometry(PointList[2], QuatOne)
    /\ ret = Isometry(PointList[2], RotList[2])
    /\ MatVec(MatMul(to_homogeneous(Self), to_homogeneous(Rhs)), origin)
         = <<0 - 750000, 0, 0, 1250000>>
    /\ MatVec(to_homogeneous(ret), origin) = PointList[2]

\* C2: composing with the identity on either side gives the other operand
\* back, translation and rotation (within epsilon), and adds no holonomy
\* rotation
C2_IdentityLaw ==
    IsMul =>
        /\ Rhs = identity => IsoAbsDiffEq(ret, Self, Eps) /\ aux = <<>>
        /\ Self = identity => IsoAbsDiffEq(ret, Rhs, Eps) /\ aux = <<>>

C2_Witness ==
    /\ IsMul
    /\ Rhs = identity
    /\ Self.translation /= origin
    /\ Self.rotation /= QuatOne
    /\ ret = Self

\* C3: composition is associative: (A * B) * C and A * (B * C) agree on
\* translation and rotation, for the pair just composed and every C
C3_Associative ==
    IsMul => \A c \in Isometries : \A bc \in {IsoMul(Rhs, c)} :
                IsoAbsDiffEq(IsoMul(ret, c), IsoMul(Self, bc), Eps)

\* three translations, along x, y and y: the two groupings differ
C3_FailingInput ==
    /\ IsMul
    /\ Self = Isometry(PointList[2], QuatOne)
    /\ Rhs = Isometry(PointList[3], QuatOne)
    /\ \E bc \in {IsoMul(Rhs, Rhs)} :
          ~IsoAbsDiffEq(IsoMul(ret, Rhs), IsoMul(Self, bc), 10 * Kilo)

\* C4: two isometries whose translation is the origin compose to the origin
\* and the product of their rotations, without the holonomy branch, and the
\* matrix of the result is the matrix of that product
C4_PureRotation ==
    (IsMul /\ Self.translation = origin /\ Rhs.translation = origin) =>
        /\ ret.translation = origin
        /\ ret.rotation = QuatMul(Self.rotation, Rhs.rotation)
        /\ aux = <<>>
        /\ to_homogeneous(ret) = QuatToHomogeneous(QuatMul(Self.rotation, Rhs.rotation))

C4_Witness ==
    /\ IsMul
    /\ Self.translation = origin
    /\ Rhs.translation = origin
    /\ QuatMul(Self.rotation, Rhs.rotation) /= QuatMul(Rhs.rotation, Self.rotation)
    /\ ret.rotation = QuatMul(Self.rotation, Rhs.rotation)

\* C5: applying an isometry to a vector gives the product of its matrix with
\* the vector (within epsilon), and the four forms of the operator return the
\* same value
C5_ApplyIsMatrix ==
    op = "mul_vector" =>
        /\ VecAbsDiffEq(ret, MatVec(to_homogeneous(Self), Rhs), Eps)
        /\ ret = MulVec_RefRef(Self, Rhs)

C5_Witness ==
    /\ op = "mul_vector"
    /\ form = "owned_owned"
    /\ Self.translation /= origin
    /\ Self.rotation /= QuatOne
    /\ Rhs[4] = 0
    /\ ret /= Rhs
    /\ ret = MatVec(to_homogeneous(Self), Rhs)

\* C6: triangle_defect is exactly zero, with no call of loc_angle, when one of
\* the three distances is exactly zero, and pi minus the three angles
\* otherwise
C6_DegenerateDefect ==
    op = "triangle_defect" =>
        LET a == distance(args[1], args[2])
            b == distance(args[2], args[3])
            c == distance(args[3], args[1])
        IN  IF a = 0 \/ b = 0 \/ c = 0
            THEN ret = 0 /\ aux = <<>>
            ELSE /\ ret = Pi - (loc_angle(a, b, c) + loc_angle(b, c, a) + loc_angle(c, a, b))
                 /\ aux = << <<a, b, c>>, <<b, c, a>>, <<c, a, b>> >>

C6_Witness ==
    /\ op = "triangle_defect"
    /\ args[1] = args[2]
    /\ args[3] /= args[1]
    /\ ret = 0
    /\ aux = <<>>

\* C7: loc_angle always returns a number in [0, pi]: zero without dividing
\* when sinh b * sinh c is zero, and else the acos of the clamped ratio, which
\* is 0 for a ratio above 1 and pi for a ratio below -1
C7_AngleTotal ==
    op = "loc_angle" =>
        LET a == args[1]
            b == args[2]
            c == args[3]
            denom == FMul(Sinh(b), Sinh(c))
            ratio == FDiv(FSub(FMul(Cosh(b), Cosh(c)), Cosh(a)), denom)
        IN  /\ ~IsNaN(ret)
            /\ 0 <= ret
            /\ ret <= Pi
            /\ denom = 0 => ret = 0 /\ aux = <<>>
            /\ denom /= 0 =>
                /\ aux = <<"divides">>
                /\ ret = Acos(clamp(ratio, 0 - One, One))
                /\ FGt(ratio, One) => ret = 0
                /\ FLt(ratio, 0 - One) => ret = Pi

C7_Witness ==
    /\ op = "loc_angle"
    /\ ~IsNaN(args[1]) /\ ~IsNaN(args[2]) /\ ~IsNaN(args[3])
    /\ FLt(FDiv(FSub(FMul(Cosh(args[2]), Cosh(args[3])), Cosh(args[1])),
                FMul(Sinh(args[2]), Sinh(args[3]))), 0 - One)
    /\ ret = Pi

\* C8: in a debug build from_parts fails its assertion exactly when the
\* translation's w is zero, returning nothing, and otherwise returns the
\* isometry of exactly the given parts
C8_FromParts ==
    (op = "from_parts" /\ args[1]) =>
        /\ aux = <<"panic">> <=> args[2][4] = 0
        /\ aux = <<"panic">> => ret = <<>>
        /\ aux /= <<"panic">> =>
            /\ aux = <<>>
            /\ ret = [translation |-> args[2], rotation |-> args[3]]

C8_Witness ==
    /\ op = "from_parts"
    /\ args[1]
    /\ args[2][4] = 0
    /\ aux = <<"panic">>

\* C9: the translation of a composition is the image of the right operand's
\* translation under the left operand (within epsilon)
C9_TranslationIsImage ==
    IsMul => VecAbsDiffEq(ret.translation, MulVec_RefRef(Self, Rhs.translation), Eps)

\* a translation along x composed with a half turn about z: the left
\* operand maps the right translation, the origin, to its own translation,
\* and the result's translation is the mirror image of that
C9_FailingInput ==
    /\ IsMul
    /\ Self = Isometry(PointList[2], QuatOne)
    /\ Rhs = Isometry(origin, RotList[2])
    /\ ret.translation = <<0 - 750000, 0, 0, 1250000>>
    /\ MulVec_RefRef(Self, Rhs.translation) = PointList[2]

\* C10: composition always yields numbers; with x the left translation moved
\* into the right operand's frame and t the right translation translated by
\* x, the result is t with the product of the rotations when t.xyz x x.xyz
\* has magnitude zero, and with that product times the rotation about the
\* normalized cross product by triangle_defect(x, t, origin) otherwise
C10_Total ==
    IsMul =>
        LET x3 == QuatRotate(QuatInverse(Rhs.rotation), xyz(Self.translation))
            x == <<x3[1], x3[2], x3[3], Self.translation[4]>>
            t == MatVec(translate(origin, x), Rhs.translation)
            n == cross(xyz(t), xyz(x))
            magnitude == norm(n)
            axis == <<FDiv(n[1], magnitude), FDiv(n[2], magnitude), FDiv(n[3], magnitude)>>
            product == QuatMul(Self.rotation, Rhs.rotation)
        IN  /\ NoNaNIso(ret)
            /\ ret.translation = t
            /\ magnitude = 0 => ret.rotation = product /\ aux = <<>>
            /\ magnitude /= 0 =>
                /\ aux = <<"holonomy">>
                /\ ret.rotation =
                     QuatMul(product, from_axis_angle(axis, triangle_defect(x, t, origin)))

C10_Witness ==
    /\ IsMul
    /\ aux = <<"holonomy">>
    /\ Self.rotation /= QuatOne
    /\ Rhs.rotation /= QuatOne
    /\ NoNaNIso(ret)
    /\ ret.rotation /= QuatMul(Self.rotation, Rhs.rotation)

=============================================================================
